---- MODULE Spec2Model ----
(***************************************************************************)
(* Boyer-Moore substring search of package substr: needle preprocessing,   *)
(* the single-buffer matcher, the streaming search over a fixed window and *)
(* the channel through which results reach the caller.                     *)
(*                                                                         *)
(* Go slices and arrays are 0-based; they are kept here as functions or    *)
(* sequences and read through At, which takes the 0-based index.           *)
(***************************************************************************)
EXTENDS Integers, Sequences, FiniteSets, TLC

(***************************************************************************)
(* Constants of the package.  byteCount has its source value.  The window  *)
(* (buffSize, 4096 in the source), the channel capacity (outChanSize, 64   *)
(* in the source) and the width of uint32 (UintBits, 32 in the source) are *)
(* scaled down so that full windows, carry-overs, a full channel and the   *)
(* value errorOffset are met by short inputs; the code never uses their    *)
(* values other than through comparison and modular arithmetic.            *)
(***************************************************************************)
byteCount == 256

buffSize == 3

outChanSize == 2

UintBits == 6

UintMod == 2 ^ UintBits

errorOffset == UintMod - 1

(* Bounds of the inputs the model enumerates. *)
MaxNeedle == 4

MaxHaystack == 6

(* The longest stream of the searches checked under fairness. *)
MaxStream == 4

(* Haystacks of UintMod - 1 - LongSlack up to UintMod - 1 bytes. *)
LongSlack == 3

(* The last LongTail bytes of a long haystack are any bytes. *)
LongTail == 2

(* The swap tool: the longest input file, the longest replacement, the     *)
(* most offsets requested, and the last number makeTempFile tries (the     *)
(* code tries 0 .. 100).                                                   *)
MaxFile == 2

MaxPatch == 2

MaxPositions == 2

tempLast == 1

Alphabet == {97, 98}

(* uint32(x): arithmetic on uint32 wraps around. *)
U32(x) == x % UintMod

(* s[i] of a Go slice kept as a sequence. *)
At(s, i) == s[i + 1]

maxUint32(i, j) == IF i > j THEN i ELSE j

(***************************************************************************)
(* Needle preprocessing.                                                   *)
(***************************************************************************)
RECURSIVE isPrefixFrom(_, _, _)
isPrefixFrom(needle, i, j) ==
    IF i < Len(needle)
    THEN IF At(needle, i) # At(needle, j)
         THEN FALSE
         ELSE isPrefixFrom(needle, i + 1, j + 1)
    ELSE TRUE

(* Is needle[p:end] a prefix of needle? *)
isPrefix(needle, p) == isPrefixFrom(needle, p, 0)

RECURSIVE suffixLengthFrom(_, _, _, _)
suffixLengthFrom(needle, i, j, length) ==
    IF i >= 0 /\ At(needle, i) = At(needle, j)
    THEN suffixLengthFrom(needle, i - 1, j - 1, length + 1)
    ELSE length

(* The maximum length of the substring that ends at p and is a suffix. *)
suffixLength(needle, p) == suffixLengthFrom(needle, p, Len(needle) - 1, 0)

RECURSIVE charTableLoop(_, _, _)
charTableLoop(needle, i, table) ==
    IF i < Len(needle) - 1
    THEN charTableLoop(needle, i + 1,
                       [table EXCEPT ![At(needle, i)] = U32(Len(needle) - 1 - i)])
    ELSE table

(* makeCharTable with the second loop running over the final byte too. *)
RECURSIVE charTableLoopWithLast(_, _, _)
charTableLoopWithLast(needle, i, table) ==
    IF i < Len(needle)
    THEN charTableLoopWithLast(needle, i + 1,
                       [table EXCEPT ![At(needle, i)] = U32(Len(needle) - 1 - i)])
    ELSE table

makeCharTableWithLast(needle) ==
    charTableLoopWithLast(needle, 0,
                          [b \in 0 .. byteCount - 1 |-> U32(Len(needle))])

(* The jump table based on the mismatched character. *)
makeCharTable(needle) ==
    charTableLoop(needle, 0, [b \in 0 .. byteCount - 1 |-> U32(Len(needle))])

RECURSIVE offsetTablePrefixLoop(_, _, _, _)
offsetTablePrefixLoop(needle, i, lastPrefixPosition, table) ==
    IF i >= 0
    THEN LET lpp == IF isPrefix(needle, i + 1) THEN i + 1 ELSE lastPrefixPosition
         IN offsetTablePrefixLoop(needle, i - 1, lpp,
                [table EXCEPT ![Len(needle) - 1 - i] = U32(lpp - i + Len(needle) - 1)])
    ELSE table

RECURSIVE offsetTableSuffixLoop(_, _, _)
offsetTableSuffixLoop(needle, i, table) ==
    IF i < Len(needle) - 1
    THEN LET slen == suffixLength(needle, i)
         IN offsetTableSuffixLoop(needle, i + 1,
                [table EXCEPT ![slen] = U32(Len(needle) - 1 - i + slen)])
    ELSE table

(* makeOffsetTable without its second loop. *)
makeOffsetTablePrefixOnly(needle) ==
    offsetTablePrefixLoop(needle, Len(needle) - 1, Len(needle),
                          [k \in 0 .. Len(needle) - 1 |-> 0])

(* makeOffsetTable with a second loop that leaves slen out of the entry. *)
RECURSIVE offsetTableSuffixLoopNoSlen(_, _, _)
offsetTableSuffixLoopNoSlen(needle, i, table) ==
    IF i < Len(needle) - 1
    THEN LET slen == suffixLength(needle, i)
         IN offsetTableSuffixLoopNoSlen(needle, i + 1,
                [table EXCEPT ![slen] = U32(Len(needle) - 1 - i)])
    ELSE table

makeOffsetTableNoSlen(needle) ==
    offsetTableSuffixLoopNoSlen(needle, 0,
        offsetTablePrefixLoop(needle, Len(needle) - 1, Len(needle),
                              [k \in 0 .. Len(needle) - 1 |-> 0]))

(* The jump table based on the scan offset at which the mismatch occurs. *)
makeOffsetTable(needle) ==
    offsetTableSuffixLoop(needle, 0,
        offsetTablePrefixLoop(needle, Len(needle) - 1, Len(needle),
                              [k \in 0 .. Len(needle) - 1 |-> 0]))

(* The pre-processed Needle of an array of bytes. *)
NewNeedleBytes(needle) ==
    [bytes       |-> needle,
     length      |-> U32(Len(needle)),
     charTable   |-> makeCharTable(needle),
     offsetTable |-> makeOffsetTable(needle)]

(***************************************************************************)
(* The matcher.  PanicIndex stands for the run-time panic of an index out  *)
(* of range; it is no uint32 value.                                        *)
(***************************************************************************)
PanicIndex == 0 - 1

RECURSIVE indexOfHelperFrom(_, _, _, _, _, _)
indexOfHelperFrom(haystack, needle, haystackLen, i, j, fresh) ==
    IF fresh /\ ~(i < haystackLen)
    THEN errorOffset
    ELSE IF j >= Len(needle.bytes) \/ i >= Len(haystack)
         THEN PanicIndex
         ELSE IF At(needle.bytes, j) = At(haystack, i)
              THEN IF j = 0
                   THEN i
                   ELSE indexOfHelperFrom(haystack, needle, haystackLen,
                                          U32(i - 1), U32(j - 1), FALSE)
              ELSE IF needle.length - 1 - j \notin DOMAIN needle.offsetTable
                   THEN PanicIndex
                   ELSE indexOfHelperFrom(haystack, needle, haystackLen,
                            U32(i + maxUint32(needle.offsetTable[needle.length - 1 - j],
                                              needle.charTable[At(haystack, i)])),
                            U32(needle.length - 1), TRUE)

(* indexOfHelper with the first alignment one position too far right. *)
indexOfHelperOffByOne(haystack, needle, haystackLen, haystackSkip) ==
    indexOfHelperFrom(haystack, needle, haystackLen,
                      U32(needle.length + haystackSkip),
                      U32(needle.length - 1), TRUE)

(* indexOfHelper with j starting at needle.length, one past the last byte. *)
indexOfHelperJPastEnd(haystack, needle, haystackLen, haystackSkip) ==
    indexOfHelperFrom(haystack, needle, haystackLen,
                      U32(needle.length - 1 + haystackSkip),
                      U32(needle.length), TRUE)

(* The next index of needle within haystack after skipping haystackSkip *)
(* positions; errorOffset if there is none.                             *)
indexOfHelper(haystack, needle, haystackLen, haystackSkip) ==
    indexOfHelperFrom(haystack, needle, haystackLen,
                      U32(needle.length - 1 + haystackSkip),
                      U32(needle.length - 1), TRUE)

(***************************************************************************)
(* The state.  One search runs per behaviour: the entry point api, its     *)
(* needle and its data are chosen in Init.  The producer is the goroutine  *)
(* the entry point starts; the consumer is the caller reading the channel *)
(* (returnOne for the find-first entry points).                            *)
(***************************************************************************)
VARIABLES
    api,        \* the entry point called
    needle,     \* the *Needle of the search
    haystack,   \* the bytes searched: the slice, or what the io.Reader holds
    rpos,       \* bytes the io.Reader has delivered so far
    rdFault,    \* a Read has returned an error other than io.EOF
    rdZero,     \* a Read given room has returned 0 bytes and a nil error
    buffer,     \* var buffer [buffSize]byte
    used,       \* valid bytes in buffer
    offset,     \* stream offset attributed to buffer[0]
    done,       \* io.EOF has been seen
    haystackSkip,           \* skip of the scan loop of indexesWithinReaderHelp
    haystackStartingIndex,  \* skip of the scan loop of IndexesOf
    index,      \* the last value indexOfHelper returned
    ipos,       \* i of indexOfHelper at the head of its loop, when stepped
    err,        \* the error of the last Read
    out,        \* the Results buffered in the channel
    closed,     \* close(out) has been executed
    pc,         \* position of the producer goroutine
    cpc,        \* position of the consumer
    received,   \* the Results the consumer has taken from the channel
    ret,        \* what returnOne returned
    spc,        \* position of the swap tool's main
    fs,         \* the directory: each file name's contents, or Absent
    fs0,        \* the directory as the swap tool found it
    fromBytes,  \* swap: the bytes expected at each offset, or none
    toBytes,    \* swap: the replacement bytes
    positions,  \* swap: the requested offsets, sorted
    posIdx,     \* swap: positions already taken by the range loop
    inFile,     \* swap: os.Open gave a file
    outFile,    \* swap: makeTempFile gave a file
    outFileName,\* swap: the name makeTempFile returned
    complete,   \* swap: var complete
    exitCode,   \* myerr: var exitCode
    panicking,  \* swap: MyPanic has panicked, deferred calls are running
    created,    \* the names this run of swap has created
    removed     \* the names os.Remove has removed

vars == <<api, needle, haystack, rpos, rdFault, rdZero, buffer, used, offset,
          done, haystackSkip, haystackStartingIndex, index, ipos, err, out,
          closed, pc, cpc, received, ret, spc, fs, fs0, fromBytes, toBytes,
          positions, posIdx, inFile, outFile, outFileName, complete,
          exitCode, panicking, created, removed>>

readerVars == <<rpos, rdFault, rdZero>>

swapVars == <<spc, fs, fs0, fromBytes, toBytes, positions, posIdx, inFile,
              outFile, outFileName, complete, exitCode, panicking, created,
              removed>>

(* The swap tool is a program of its own: in a search it does not run. *)
SwapNotRun ==
    /\ spc = "none"
    /\ fs = <<>>
    /\ fs0 = <<>>
    /\ fromBytes = <<>>
    /\ toBytes = <<>>
    /\ positions = <<>>
    /\ posIdx = 0
    /\ inFile = FALSE
    /\ outFile = FALSE
    /\ outFileName = ""
    /\ complete = FALSE
    /\ exitCode = 0
    /\ panicking = FALSE
    /\ created = {}
    /\ removed = {}

windowVars == <<buffer, used, offset, done, haystackSkip, err>>

consumerVars == <<cpc, received, ret>>

inputVars == <<api, needle, haystack>>

ErrEmptyNeedle == "ErrEmptyNeedle"

ErrRead == "ErrRead"

EOF == "EOF"

Result(o, e) == [Offset |-> o, Error |-> e]

StreamAPIs == {"IndexesWithinReaderNeedle", "IndexWithinReaderNeedle"}

FirstAPIs == {"IndexWithinReaderNeedle", "IndexOf"}

APIs == {"IndexesOf", "IndexOf"} \cup StreamAPIs

(* IndexWithinReaderNeedle passes stopAtFirst = true, *)
(* IndexesWithinReaderNeedle passes false.            *)
stopAtFirst == api = "IndexWithinReaderNeedle"

PanicStates == {"panic: send on closed channel", "panic: close of closed channel",
                "panic: slice bounds out of range", "panic: index out of range"}

Panicked == pc \in PanicStates

(* A panic, of the goroutine or of returnOne, ends the whole program. *)
Crashed == Panicked \/ cpc = "panic: got more than one result"

BytesUpTo(n) == UNION {[1 .. k -> Alphabet] : k \in 0 .. n}

(* The needles tried.  The code only compares bytes with each other and    *)
(* indexes charTable by them, so exchanging the two letters throughout     *)
(* needle and haystack maps every run onto a run; the needles that begin   *)
(* with the other letter are therefore left out.                           *)
Needles == {nb \in BytesUpTo(MaxNeedle) : nb = <<>> \/ nb[1] = 97}

Init ==
    /\ api \in APIs
    /\ \E nb \in Needles : needle = NewNeedleBytes(nb)
    /\ haystack \in BytesUpTo(MaxHaystack)
    /\ rpos = 0
    /\ rdFault = FALSE
    /\ rdZero = FALSE
    /\ buffer = [k \in 0 .. buffSize - 1 |-> 0]
    /\ used = 0
    /\ offset = 0
    /\ done = FALSE
    /\ haystackSkip = 0
    /\ haystackStartingIndex = 0
    /\ index = 0
    /\ ipos = 0
    /\ SwapNotRun
    /\ err = "nil"
    /\ out = <<>>
    /\ closed = FALSE
    /\ pc = "start"
    /\ cpc = IF api \in FirstAPIs THEN "recv1" ELSE "range"
    /\ received = <<>>
    /\ ret = [any |-> FALSE, firstOffset |-> 0, e |-> "nil"]

(***************************************************************************)
(* Channel operations of the producer.  A send blocks while the buffer is  *)
(* full and panics on a closed channel; a second close panics.             *)
(***************************************************************************)
(* A send that never waits for room, as on an unbounded buffer. *)
CanSendAlways == TRUE

CanSend == closed \/ Len(out) < outChanSize

(* out <- r, continuing at next. *)
Send(r, next) ==
    IF closed
    THEN /\ pc' = "panic: send on closed channel"
         /\ UNCHANGED out
    ELSE /\ out' = Append(out, r)
         /\ pc' = next

(* close(out), continuing at next. *)
Close(next) ==
    IF closed
    THEN /\ pc' = "panic: close of closed channel"
         /\ UNCHANGED closed
    ELSE /\ closed' = TRUE
         /\ pc' = next

(***************************************************************************)
(* The goroutine of indexesWithinReaderHelp.                               *)
(***************************************************************************)

(* The check of the needle at the head of the goroutine.  The branch for   *)
(* an empty needle sends and closes and then falls through to the loop.    *)
HelpStart ==
    /\ pc = "start"
    /\ ~Crashed
    /\ api \in StreamAPIs
    /\ IF needle.length = 0
       THEN /\ out' = Append(out, Result(errorOffset, ErrEmptyNeedle))
            /\ closed' = TRUE
       ELSE UNCHANGED <<out, closed>>
    /\ pc' = "read"
    /\ UNCHANGED <<swapVars, ipos, inputVars, readerVars, windowVars, haystackStartingIndex,
                   index, consumerVars>>

(* What haystack.Read(p) may return for len(p) = free: count bytes and an  *)
(* error.  io.EOF comes only with or after the last byte; any call may     *)
(* fail, with or without bytes; a call may return 0 bytes and no error,    *)
(* as it does when len(p) = 0.                                             *)
ReadOutcomes(free) ==
    {o \in [count : 0 .. free, e : {"nil", EOF, ErrRead}] :
        /\ rpos + o.count <= Len(haystack)
        /\ o.e = EOF => rpos + o.count = Len(haystack)}

(* buffer after Read has stored count bytes at buffer[used:]. *)
Fill(count) ==
    [k \in 0 .. buffSize - 1 |->
        IF used <= k /\ k < used + count
        THEN At(haystack, rpos + (k - used))
        ELSE buffer[k]]

(* count, err := haystack.Read(buffer[used:]) and the branches that follow. *)
HelpRead ==
    /\ pc = "read"
    /\ ~Crashed
    /\ api \in StreamAPIs
    /\ IF used > buffSize
       THEN /\ pc' = "panic: slice bounds out of range"
            /\ UNCHANGED <<readerVars, windowVars>>
       ELSE \E o \in ReadOutcomes(buffSize - used) :
            /\ rpos' = rpos + o.count
            /\ rdFault' = (rdFault \/ o.e = ErrRead)
            /\ rdZero' = (rdZero \/ (o.count = 0 /\ o.e = "nil" /\ used < buffSize))
            /\ buffer' = Fill(o.count)
            /\ UNCHANGED offset
            /\ IF o.count > 0
               THEN /\ used' = U32(used + o.count)
                    /\ IF U32(used + o.count) < buffSize
                       THEN /\ pc' = "read"
                            /\ UNCHANGED haystackSkip
                       ELSE /\ pc' = "scan"
                            /\ haystackSkip' = 0
                    /\ UNCHANGED <<done, err>>
               ELSE IF o.e # EOF
                    THEN /\ pc' = "senderr"
                         /\ err' = o.e
                         /\ UNCHANGED <<used, done, haystackSkip>>
                    ELSE /\ done' = TRUE
                         /\ pc' = "scan"
                         /\ haystackSkip' = 0
                         /\ UNCHANGED <<used, err>>
    /\ UNCHANGED <<swapVars, ipos, inputVars, haystackStartingIndex, index, out, closed,
                   consumerVars>>

(* HelpSendErr that closes the channel in the error branch itself, before  *)
(* the close at the end of the goroutine.                                  *)
HelpSendErrCloses ==
    /\ pc = "senderr"
    /\ ~Crashed
    /\ api \in StreamAPIs
    /\ CanSend
    /\ Send(Result(errorOffset, err), "close")
    /\ closed' = TRUE
    /\ UNCHANGED <<swapVars, ipos, inputVars, readerVars, windowVars, haystackStartingIndex,
                   index, consumerVars>>

(* out <- Result{errorOffset, err}; break outer *)
HelpSendErr ==
    /\ pc = "senderr"
    /\ ~Crashed
    /\ api \in StreamAPIs
    /\ CanSend
    /\ Send(Result(errorOffset, err), "close")
    /\ UNCHANGED <<swapVars, ipos, inputVars, readerVars, windowVars, haystackStartingIndex,
                   index, closed, consumerVars>>

(* buffer[0:used] *)
Window == [k \in 1 .. used |-> buffer[k - 1]]

(* offset += used - needle.length - 1 *)
CarryOffset == U32(offset + used - needle.length - 1)

(* The carry-over without its copy: the front of the window keeps its bytes. *)
CarryCopyNone(low) == buffer

(* copy(buffer[0:], buffer[low:used]) *)
CarryCopy(low) ==
    [k \in 0 .. buffSize - 1 |->
        IF k < used - low THEN buffer[low + k] ELSE buffer[k]]

(* HelpScan with a carry-over that takes needle.length - 1 by decrementing *)
(* the field of the Needle.                                                *)
HelpScanShortensNeedle ==
    /\ pc = "scan"
    /\ ~Crashed
    /\ api \in StreamAPIs
    /\ IF used > buffSize
       THEN /\ pc' = "panic: slice bounds out of range"
            /\ UNCHANGED <<windowVars, index>>
       ELSE LET idx == indexOfHelper(Window, needle, used, haystackSkip)
                low == U32(used - needle.length + 1)
            IN  IF idx = PanicIndex
                THEN /\ pc' = "panic: index out of range"
                     /\ UNCHANGED <<windowVars, index>>
                ELSE IF idx # errorOffset
                THEN /\ index' = idx
                     /\ pc' = "send"
                     /\ UNCHANGED windowVars
                ELSE IF done
                THEN /\ index' = idx
                     /\ pc' = "close"
                     /\ UNCHANGED windowVars
                ELSE IF low > used
                THEN /\ index' = idx
                     /\ pc' = "panic: slice bounds out of range"
                     /\ UNCHANGED windowVars
                ELSE /\ index' = idx
                     /\ buffer' = CarryCopy(low)
                     /\ offset' = CarryOffset
                     /\ used' = U32(needle.length - 1)
                     /\ pc' = "read"
                     /\ UNCHANGED <<done, haystackSkip, err>>
    /\ needle' = IF pc' = "read"
                 THEN [needle EXCEPT !.length = U32(@ - 1)]
                 ELSE needle
    /\ UNCHANGED <<swapVars, ipos, api, haystack, readerVars, haystackStartingIndex, out,
                   closed, consumerVars>>

(* HelpScan without the test of done after the inner loop: the goroutine  *)
(* carries over and reads on after io.EOF.                                 *)
HelpScanNoDoneBreak ==
    /\ pc = "scan"
    /\ ~Crashed
    /\ api \in StreamAPIs
    /\ IF used > buffSize
       THEN /\ pc' = "panic: slice bounds out of range"
            /\ UNCHANGED <<windowVars, index>>
       ELSE LET idx == indexOfHelper(Window, needle, used, haystackSkip)
                low == U32(used - needle.length + 1)
            IN  IF idx = PanicIndex
                THEN /\ pc' = "panic: index out of range"
                     /\ UNCHANGED <<windowVars, index>>
                ELSE IF idx # errorOffset
                THEN /\ index' = idx
                     /\ pc' = "send"
                     /\ UNCHANGED windowVars
                ELSE IF low > used
                THEN /\ index' = idx
                     /\ pc' = "panic: slice bounds out of range"
                     /\ UNCHANGED windowVars
                ELSE /\ index' = idx
                     /\ buffer' = CarryCopy(low)
                     /\ offset' = CarryOffset
                     /\ used' = U32(needle.length - 1)
                     /\ pc' = "read"
                     /\ UNCHANGED <<done, haystackSkip, err>>
    /\ UNCHANGED <<swapVars, ipos, inputVars, readerVars, haystackStartingIndex, out, closed,
                   consumerVars>>

(* One call of indexOfHelper in the scan loop.  When it finds nothing the  *)
(* loop ends: the goroutine leaves the outer loop after io.EOF, otherwise   *)
(* it carries the tail of the window over and reads on.                     *)
HelpScan ==
    /\ pc = "scan"
    /\ ~Crashed
    /\ api \in StreamAPIs
    /\ IF used > buffSize
       THEN /\ pc' = "panic: slice bounds out of range"
            /\ UNCHANGED <<windowVars, index>>
       ELSE LET idx == indexOfHelper(Window, needle, used, haystackSkip)
                low == U32(used - needle.length + 1)
            IN  IF idx = PanicIndex
                THEN /\ pc' = "panic: index out of range"
                     /\ UNCHANGED <<windowVars, index>>
                ELSE IF idx # errorOffset
                THEN /\ index' = idx
                     /\ pc' = "send"
                     /\ UNCHANGED windowVars
                ELSE IF done
                THEN /\ index' = idx
                     /\ pc' = "close"
                     /\ UNCHANGED windowVars
                ELSE IF low > used
                THEN /\ index' = idx
                     /\ pc' = "panic: slice bounds out of range"
                     /\ UNCHANGED windowVars
                ELSE /\ index' = idx
                     /\ buffer' = CarryCopy(low)
                     /\ offset' = CarryOffset
                     /\ used' = U32(needle.length - 1)
                     /\ pc' = "read"
                     /\ UNCHANGED <<done, haystackSkip, err>>
    /\ UNCHANGED <<swapVars, ipos, inputVars, readerVars, haystackStartingIndex, out, closed,
                   consumerVars>>

(* HelpSendMatch without the test of stopAtFirst. *)
HelpSendMatchGoesOn ==
    /\ pc = "send"
    /\ ~Crashed
    /\ api \in StreamAPIs
    /\ CanSend
    /\ Send(Result(U32(offset + index), "nil"), "scan")
    /\ haystackSkip' = U32(index + 1)
    /\ UNCHANGED <<swapVars, ipos, inputVars, readerVars, buffer, used, offset, done, err,
                   haystackStartingIndex, index, closed, consumerVars>>

(* HelpSendMatch with a send that does not wait: finding the channel full,  *)
(* the goroutine gives the search up and goes to close the channel.        *)
HelpSendMatchGivesUp ==
    /\ pc = "send"
    /\ ~Crashed
    /\ api \in StreamAPIs
    /\ IF ~closed /\ Len(out) >= outChanSize
       THEN /\ pc' = "close"
            /\ UNCHANGED <<out, haystackSkip>>
       ELSE /\ Send(Result(U32(offset + index), "nil"),
                    IF stopAtFirst THEN "close" ELSE "scan")
            /\ haystackSkip' =
                   IF stopAtFirst THEN haystackSkip ELSE U32(index + 1)
    /\ UNCHANGED <<swapVars, ipos, inputVars, readerVars, buffer, used, offset, done, err,
                   haystackStartingIndex, index, closed, consumerVars>>

(* out <- Result{offset + index, nil}, then break outer or go on scanning. *)
HelpSendMatch ==
    /\ pc = "send"
    /\ ~Crashed
    /\ api \in StreamAPIs
    /\ CanSend
    /\ Send(Result(U32(offset + index), "nil"),
            IF stopAtFirst THEN "close" ELSE "scan")
    /\ haystackSkip' = IF stopAtFirst THEN haystackSkip ELSE U32(index + 1)
    /\ UNCHANGED <<swapVars, ipos, inputVars, readerVars, buffer, used, offset, done, err,
                   haystackStartingIndex, index, closed, consumerVars>>

(* close(out) at the end of the goroutine. *)
HelpClose ==
    /\ pc = "close"
    /\ ~Crashed
    /\ api \in StreamAPIs
    /\ Close("done")
    /\ UNCHANGED <<swapVars, ipos, inputVars, readerVars, windowVars, haystackStartingIndex,
                   index, out, consumerVars>>

(***************************************************************************)
(* The goroutine of IndexesOf.                                             *)
(***************************************************************************)

(* needle := NewNeedleBytes(needleBytes) and the check of its length; the  *)
(* branch for an empty needle sends and falls through to the loop.         *)
IndexesOfStart ==
    /\ pc = "start"
    /\ ~Crashed
    /\ api = "IndexesOf"
    /\ IF needle.length = 0
       THEN out' = Append(out, Result(errorOffset, ErrEmptyNeedle))
       ELSE UNCHANGED out
    /\ pc' = "scan"
    /\ UNCHANGED <<swapVars, ipos, inputVars, readerVars, windowVars, haystackStartingIndex,
                   index, closed, consumerVars>>

(* index := indexOfHelper(haystack, needle, haystackLen, haystackStartingIndex) *)
IndexesOfScan ==
    /\ pc = "scan"
    /\ ~Crashed
    /\ api = "IndexesOf"
    /\ LET haystackLen == U32(Len(haystack))
           idx == indexOfHelper(haystack, needle, haystackLen, haystackStartingIndex)
       IN  IF idx = PanicIndex
           THEN /\ pc' = "panic: index out of range"
                /\ UNCHANGED index
           ELSE /\ index' = idx
                /\ pc' = IF idx = errorOffset THEN "close" ELSE "send"
    /\ UNCHANGED <<swapVars, ipos, inputVars, readerVars, windowVars, haystackStartingIndex,
                   out, closed, consumerVars>>

(* IndexesOfSend resuming behind the whole match instead of one byte on. *)
IndexesOfSendSkipsMatch ==
    /\ pc = "send"
    /\ ~Crashed
    /\ api = "IndexesOf"
    /\ CanSend
    /\ Send(Result(index, "nil"), "scan")
    /\ haystackStartingIndex' = U32(index + needle.length)
    /\ UNCHANGED <<swapVars, ipos, inputVars, readerVars, windowVars, index, closed,
                   consumerVars>>

(* out <- Result{index, nil}; haystackStartingIndex = index + 1 *)
IndexesOfSend ==
    /\ pc = "send"
    /\ ~Crashed
    /\ api = "IndexesOf"
    /\ CanSend
    /\ Send(Result(index, "nil"), "scan")
    /\ haystackStartingIndex' = U32(index + 1)
    /\ UNCHANGED <<swapVars, ipos, inputVars, readerVars, windowVars, index, closed,
                   consumerVars>>

IndexesOfClose ==
    /\ pc = "close"
    /\ ~Crashed
    /\ api = "IndexesOf"
    /\ Close("done")
    /\ UNCHANGED <<swapVars, ipos, inputVars, readerVars, windowVars, haystackStartingIndex,
                   index, out, consumerVars>>

(***************************************************************************)
(* The goroutine of IndexOf.                                               *)
(***************************************************************************)
(* IndexOfStart without the report of the empty needle. *)
IndexOfStartNoError ==
    /\ pc = "start"
    /\ ~Crashed
    /\ api = "IndexOf"
    /\ pc' = "scan"
    /\ UNCHANGED <<swapVars, ipos, inputVars, readerVars, windowVars, haystackStartingIndex,
                   index, out, closed, consumerVars>>

IndexOfStart ==
    /\ pc = "start"
    /\ ~Crashed
    /\ api = "IndexOf"
    /\ IF needle.length = 0
       THEN out' = Append(out, Result(errorOffset, ErrEmptyNeedle))
       ELSE UNCHANGED out
    /\ pc' = "scan"
    /\ UNCHANGED <<swapVars, ipos, inputVars, readerVars, windowVars, haystackStartingIndex,
                   index, closed, consumerVars>>

(* index := indexOfHelper(haystack, needle, haystackLen, 0) *)
IndexOfScan ==
    /\ pc = "scan"
    /\ ~Crashed
    /\ api = "IndexOf"
    /\ LET haystackLen == U32(Len(haystack))
           idx == indexOfHelper(haystack, needle, haystackLen, 0)
       IN  IF idx = PanicIndex
           THEN /\ pc' = "panic: index out of range"
                /\ UNCHANGED index
           ELSE /\ index' = idx
                /\ pc' = IF idx # errorOffset THEN "send" ELSE "close"
    /\ UNCHANGED <<swapVars, ipos, inputVars, readerVars, windowVars, haystackStartingIndex,
                   out, closed, consumerVars>>

(* out <- Result{index, nil} *)
IndexOfSend ==
    /\ pc = "send"
    /\ ~Crashed
    /\ api = "IndexOf"
    /\ CanSend
    /\ Send(Result(index, "nil"), "close")
    /\ UNCHANGED <<swapVars, ipos, inputVars, readerVars, windowVars, haystackStartingIndex,
                   index, closed, consumerVars>>

IndexOfClose ==
    /\ pc = "close"
    /\ ~Crashed
    /\ api = "IndexOf"
    /\ Close("done")
    /\ UNCHANGED <<swapVars, ipos, inputVars, readerVars, windowVars, haystackStartingIndex,
                   index, out, consumerVars>>

(***************************************************************************)
(* The consumers.                                                          *)
(***************************************************************************)

(* The caller of a find-all entry point ranging over the channel. *)
Range ==
    /\ cpc = "range"
    /\ ~Crashed
    /\ IF out # <<>>
       THEN /\ received' = Append(received, Head(out))
            /\ out' = Tail(out)
            /\ UNCHANGED cpc
       ELSE /\ closed
            /\ cpc' = "end"
            /\ UNCHANGED <<received, out>>
    /\ UNCHANGED <<swapVars, ipos, inputVars, readerVars, windowVars, haystackStartingIndex,
                   index, closed, pc, ret>>

(* result, ok := <-c of returnOne. *)
ReturnOneFirst ==
    /\ cpc = "recv1"
    /\ ~Crashed
    /\ IF out # <<>>
       THEN /\ received' = Append(received, Head(out))
            /\ out' = Tail(out)
            /\ cpc' = "recv2"
            /\ UNCHANGED ret
       ELSE /\ closed
            /\ ret' = [any |-> FALSE, firstOffset |-> 0, e |-> "nil"]
            /\ cpc' = "returned"
            /\ UNCHANGED <<received, out>>
    /\ UNCHANGED <<swapVars, ipos, inputVars, readerVars, windowVars, haystackStartingIndex,
                   index, closed, pc>>

(* _, ok = <-c of returnOne, in either branch, and the return. *)
ReturnOneSecond ==
    /\ cpc = "recv2"
    /\ ~Crashed
    /\ IF out # <<>>
       THEN /\ received' = Append(received, Head(out))
            /\ out' = Tail(out)
            /\ cpc' = "panic: got more than one result"
            /\ UNCHANGED ret
       ELSE /\ closed
            /\ ret' = IF received[1].Error = "nil"
                      THEN [any |-> TRUE, firstOffset |-> received[1].Offset,
                            e |-> "nil"]
                      ELSE [any |-> FALSE, firstOffset |-> received[1].Offset,
                            e |-> received[1].Error]
            /\ cpc' = "returned"
            /\ UNCHANGED <<received, out>>
    /\ UNCHANGED <<swapVars, ipos, inputVars, readerVars, windowVars, haystackStartingIndex,
                   index, closed, pc>>

Next ==
    \/ HelpStart
    \/ HelpRead
    \/ HelpSendErr
    \/ HelpScan
    \/ HelpSendMatch
    \/ HelpClose
    \/ IndexesOfStart
    \/ IndexesOfScan
    \/ IndexesOfSend
    \/ IndexesOfClose
    \/ IndexOfStart
    \/ IndexOfScan
    \/ IndexOfSend
    \/ IndexOfClose
    \/ Range
    \/ ReturnOneFirst
    \/ ReturnOneSecond

Spec == Init /\ [][Next]_vars

(***************************************************************************)
(* What the searches are to compute.                                       *)
(***************************************************************************)

(* H[i : i+len(P)] == P *)
Occurs(H, P, i) ==
    /\ i + Len(P) <= Len(H)
    /\ \A k \in 1 .. Len(P) : H[i + k] = P[k]

Occurrences(H, P) == {i \in 0 .. Len(H) : Occurs(H, P, i)}

Min(S) == CHOOSE m \in S : \A x \in S : m <= x

RECURSIVE AscendingFrom(_, _, _)
AscendingFrom(H, P, i) ==
    IF i > Len(H)
    THEN <<>>
    ELSE (IF Occurs(H, P, i) THEN <<Result(i, "nil")>> ELSE <<>>)
         \o AscendingFrom(H, P, i + 1)

(* One match Result per occurrence of P in H, in ascending order. *)
Expected(H, P) == AscendingFrom(H, P, 0)

(* Everything the producer has put on the channel, in the order of sending. *)
Sent == received \o out

IsPrefixOf(s, t) ==
    /\ Len(s) <= Len(t)
    /\ \A k \in 1 .. Len(s) : s[k] = t[k]

(* The reader has split the stream into chunks of one or more bytes and    *)
(* has reported nothing but io.EOF at its end.                             *)
GoodReader == ~rdFault /\ ~rdZero

FitsWindow == needle.length >= 1 /\ needle.length <= buffSize

(***************************************************************************)
(* C1: in-memory find-all (IndexesOf) with a non-empty needle delivers     *)
(* exactly the offsets at which the needle occurs in the haystack, each    *)
(* once, ascending, overlapping occurrences included, delivers no error    *)
(* result, and then closes the channel.                                    *)
(***************************************************************************)
IndexesOfExact ==
    (api = "IndexesOf" /\ needle.length > 0) =>
        /\ ~Panicked
        /\ IsPrefixOf(Sent, Expected(haystack, needle.bytes))
        /\ closed => Sent = Expected(haystack, needle.bytes)
        /\ pc = "done" => closed
        /\ cpc = "end" => received = Expected(haystack, needle.bytes)

(* A finished find-all that has delivered overlapping occurrences. *)
IndexesOfExactWitness ==
    /\ api = "IndexesOf"
    /\ cpc = "end"
    /\ needle.length >= 2
    /\ Len(received) >= 3
    /\ \E k \in 1 .. Len(received) - 1 :
          received[k + 1].Offset - received[k].Offset < needle.length

(***************************************************************************)
(* C2: in-memory find-first (IndexOf) with a non-empty needle returns      *)
(* any = true, the smallest offset of an occurrence and a nil error when   *)
(* the needle occurs, and any = false and a nil error when it does not.    *)
(***************************************************************************)
IndexOfFirst ==
    (api = "IndexOf" /\ needle.length > 0) =>
        /\ ~Panicked
        /\ cpc # "panic: got more than one result"
        /\ cpc = "returned" =>
              IF Occurrences(haystack, needle.bytes) # {}
              THEN ret = [any |-> TRUE,
                          firstOffset |-> Min(Occurrences(haystack, needle.bytes)),
                          e |-> "nil"]
              ELSE ret.any = FALSE /\ ret.e = "nil"

(* IndexOf has returned the first of several occurrences, not at offset 0. *)
IndexOfFirstWitness ==
    /\ api = "IndexOf"
    /\ cpc = "returned"
    /\ ret.any
    /\ ret.firstOffset > 0
    /\ Cardinality(Occurrences(haystack, needle.bytes)) >= 2

(* The Results the goroutine of IndexesOf sends for haystack H, got by      *)
(* running its loop from haystackStartingIndex = start.                    *)
RECURSIVE IndexesOfResults(_, _, _)
IndexesOfResults(H, n, start) ==
    LET idx == indexOfHelper(H, n, U32(Len(H)), start)
    IN  IF idx = errorOffset \/ idx = PanicIndex
        THEN <<>>
        ELSE <<Result(idx, "nil")>> \o IndexesOfResults(H, n, U32(idx + 1))

(***************************************************************************)
(* C3: streaming find-all (IndexesWithinReaderNeedle) delivers, for a      *)
(* non-empty needle no longer than the window and a reader that splits the *)
(* stream into chunks of one or more bytes, the very sequence of results   *)
(* that IndexesOf delivers for the assembled bytes, also when the stream   *)
(* is longer than one window.                                              *)
(***************************************************************************)
StreamEqualsInMemory ==
    (/\ api = "IndexesWithinReaderNeedle"
     /\ FitsWindow
     /\ GoodReader
     /\ cpc = "end") =>
        received = IndexesOfResults(haystack, needle, 0)

(***************************************************************************)
(* C4: streaming find-all over a stream of several windows delivers one    *)
(* match result per occurrence of the needle in the whole stream: none     *)
(* that straddles a window boundary is missed, none is reported twice.     *)
(***************************************************************************)
StreamCountExact ==
    (api = "IndexesWithinReaderNeedle" /\ FitsWindow /\ GoodReader) =>
        /\ ~Panicked
        /\ \A k \in 1 .. Len(Sent) : Sent[k].Error = "nil"
        /\ Len(Sent) <= Cardinality(Occurrences(haystack, needle.bytes))
        /\ closed => Len(Sent) = Cardinality(Occurrences(haystack, needle.bytes))
        /\ cpc = "end" =>
              Len(received) = Cardinality(Occurrences(haystack, needle.bytes))

(* A finished search of a stream of three windows in which one occurrence  *)
(* straddles the first window boundary and another lies in a later window. *)
StreamCountExactWitness ==
    /\ api = "IndexesWithinReaderNeedle"
    /\ GoodReader
    /\ cpc = "end"
    /\ needle.length = 2
    /\ Len(haystack) > 2 * buffSize - 1
    /\ Occurs(haystack, needle.bytes, buffSize - 1)
    /\ Occurs(haystack, needle.bytes, buffSize + 1)
    /\ Len(received) >= 3

(***************************************************************************)
(* C5: streaming find-first (IndexWithinReaderNeedle), for a non-empty     *)
(* needle no longer than the window and a stream whose reads do not fail,  *)
(* returns any = true exactly when the needle occurs in the stream, then   *)
(* with the smallest absolute offset of an occurrence, and a nil error.    *)
(***************************************************************************)
StreamFirstIsMinimum ==
    (/\ api = "IndexWithinReaderNeedle"
     /\ FitsWindow
     /\ GoodReader
     /\ cpc = "returned") =>
        /\ ret.any <=> Occurrences(haystack, needle.bytes) # {}
        /\ ret.any => ret.firstOffset = Min(Occurrences(haystack, needle.bytes))
        /\ ret.e = "nil"

(***************************************************************************)
(* C6: in streaming find-all, of any two match results delivered one after *)
(* the other, within a window or across a carry-over, the later one has    *)
(* the strictly greater offset.                                            *)
(***************************************************************************)
StreamOffsetsIncrease ==
    (api = "IndexesWithinReaderNeedle" /\ FitsWindow /\ GoodReader) =>
        \A k \in 1 .. Len(Sent) - 1 :
            (Sent[k].Error = "nil" /\ Sent[k + 1].Error = "nil") =>
                Sent[k].Offset < Sent[k + 1].Offset

(***************************************************************************)
(* C7: with an empty needle, IndexesOf delivers exactly one result, whose  *)
(* Error is ErrEmptyNeedle, no match result, and closes the channel;       *)
(* IndexOf returns any = false and e = ErrEmptyNeedle.                     *)
(***************************************************************************)
EmptyNeedleInMemory ==
    (api \in {"IndexesOf", "IndexOf"} /\ needle.length = 0) =>
        /\ ~Panicked
        /\ cpc # "panic: got more than one result"
        /\ pc # "start" => Sent = <<Result(errorOffset, ErrEmptyNeedle)>>
        /\ pc = "done" => closed
        /\ cpc = "end" => received = <<Result(errorOffset, ErrEmptyNeedle)>>
        /\ cpc = "returned" => (ret.any = FALSE /\ ret.e = ErrEmptyNeedle)

(* IndexOf has returned for an empty needle and a haystack of some bytes. *)
EmptyNeedleInMemoryWitness ==
    /\ api = "IndexOf"
    /\ needle.length = 0
    /\ Len(haystack) >= 2
    /\ cpc = "returned"
    /\ pc = "done"

(* No Read has returned yet: each outcome of a Read leaves a trace in one  *)
(* of these variables.                                                     *)
NoReadYet == rpos = 0 /\ ~rdFault /\ ~rdZero /\ ~done /\ err = "nil"

(***************************************************************************)
(* C8: with an empty needle the streaming engine emits exactly one result, *)
(* whose Error is ErrEmptyNeedle, closes the result sequence and does      *)
(* nothing more: no read from the stream, no scan, no further send and no  *)
(* second close.                                                           *)
(***************************************************************************)
EmptyNeedleStreaming ==
    (api \in StreamAPIs /\ needle.length = 0) =>
        /\ pc # "start" => (Sent = <<Result(errorOffset, ErrEmptyNeedle)>> /\ closed)
        /\ NoReadYet
        /\ pc \notin {"scan", "send", "senderr", "close"}
        /\ ~Panicked

(* Results whose Error is not nil. *)
ErrorResults(s) == {k \in 1 .. Len(s) : s[k].Error # "nil"}

(***************************************************************************)
(* C9: when a Read reports an error other than io.EOF, the streaming       *)
(* engine emits exactly one error result, which carries that error and is  *)
(* the last item of the sequence, closes the sequence right after it and   *)
(* attempts no further read.                                               *)
(***************************************************************************)
ReadFailureEndsSequence ==
    (api \in StreamAPIs /\ rdFault) =>
        /\ pc \in {"senderr", "close", "done"}
        /\ pc \in {"close", "done"} =>
              /\ Sent # <<>>
              /\ Sent[Len(Sent)] = Result(errorOffset, ErrRead)
              /\ Cardinality(ErrorResults(Sent)) = 1
        /\ pc = "done" => closed

(* A match Result has been put on the channel. *)
MatchEmitted == \E k \in 1 .. Len(Sent) : Sent[k].Error = "nil"

(***************************************************************************)
(* C10: in every find-first call (IndexWithinReaderNeedle, IndexOf), for   *)
(* every needle and every behaviour of the reader, the producer puts at    *)
(* most one item on the channel; after the first emitted match it neither  *)
(* reads nor scans again; the second receive of returnOne never gets an    *)
(* item, so its panic "got more than one result" is not reached.           *)
(***************************************************************************)
StopAtFirstInv ==
    api \in FirstAPIs =>
        /\ Len(Sent) <= 1
        /\ cpc # "panic: got more than one result"
        /\ MatchEmitted => pc \in {"close", "done"}

StopAtFirstOneItem ==
    /\ []StopAtFirstInv
    /\ [][(api \in FirstAPIs /\ MatchEmitted) =>
            ~(HelpRead \/ HelpScan \/ IndexOfScan)]_vars

(* A streaming find-first has returned a match while the stream holds a    *)
(* later occurrence and bytes that were never read.                        *)
StopAtFirstOneItemWitness ==
    /\ api = "IndexWithinReaderNeedle"
    /\ cpc = "returned"
    /\ ret.any
    /\ Cardinality(Occurrences(haystack, needle.bytes)) >= 2
    /\ rpos < Len(haystack)

(***************************************************************************)
(* Backpressure of the buffered channel.                                   *)
(***************************************************************************)

(* The producer stands at a send and the open channel has no room. *)
BlockedOnFull ==
    /\ pc \in {"send", "senderr"}
    /\ ~closed
    /\ Len(out) = outChanSize

(* C11, as stated: while outChanSize results are pending the producer      *)
(* takes no step of its own, neither a read nor a scan, until the consumer *)
(* has taken an item.                                                      *)
BackpressureNoWorkWhenFull ==
    [][(api = "IndexesWithinReaderNeedle" /\ ~closed
          /\ Len(out) = outChanSize) => ~(HelpRead \/ HelpScan)]_vars

(* C11, amended: the channel never holds more than outChanSize results;    *)
(* with outChanSize results pending the producer goes on scanning and      *)
(* reading, and it is the next send that waits: from a state where the     *)
(* producer stands at a send with the channel full, the only step is a     *)
(* receive by the consumer, which takes the oldest pending result; the     *)
(* results sent are received once each and in the order of the sends.      *)
Backpressure ==
    /\ [](Len(out) <= outChanSize)
    /\ [][BlockedOnFull =>
            /\ out' = Tail(out)
            /\ received' = Append(received, Head(out))
            /\ UNCHANGED <<pc, closed, index, readerVars, windowVars>>]_vars
    /\ [][\/ Sent' = Sent
          \/ /\ received' = received
             /\ Len(Sent') = Len(Sent) + 1
             /\ SubSeq(Sent', 1, Len(Sent)) = Sent]_vars

(* The consumer has taken a result, the channel is full again and the      *)
(* producer of a streaming find-all waits at its next send.                *)
BackpressureWitness ==
    /\ api = "IndexesWithinReaderNeedle"
    /\ BlockedOnFull
    /\ pc = "send"
    /\ Len(received) >= 1

(***************************************************************************)
(* A caller of the streaming find-all that gives up: it leaves its loop    *)
(* over the channel after any number of items and never receives again.    *)
(* Nothing tells the producer goroutine.                                   *)
(***************************************************************************)
Abandon ==
    /\ cpc = "range"
    /\ ~Crashed
    /\ api = "IndexesWithinReaderNeedle"
    /\ cpc' = "abandoned"
    /\ UNCHANGED <<swapVars, ipos, inputVars, readerVars, windowVars, haystackStartingIndex,
                   index, out, closed, pc, received, ret>>

(* The steps of the producer goroutine and those of the caller. *)
ProducerStep ==
    \/ HelpStart \/ HelpRead \/ HelpSendErr \/ HelpScan \/ HelpSendMatch
    \/ HelpClose
    \/ IndexesOfStart \/ IndexesOfScan \/ IndexesOfSend \/ IndexesOfClose
    \/ IndexOfStart \/ IndexOfScan \/ IndexOfSend \/ IndexOfClose

ConsumerStep == Range \/ ReturnOneFirst \/ ReturnOneSecond

(* The searches of the claim: a needle of 1..buffSize bytes and a stream   *)
(* with more occurrences than the channel holds.                           *)
InitAbandon ==
    /\ Init
    /\ api = "IndexesWithinReaderNeedle"
    /\ FitsWindow
    /\ Cardinality(Occurrences(haystack, needle.bytes)) > outChanSize

NextAbandon ==
    \/ HelpStart
    \/ HelpRead
    \/ HelpSendErr
    \/ HelpScan
    \/ HelpSendMatch
    \/ HelpClose
    \/ Range
    \/ Abandon

(* The scheduler runs the producer goroutine whenever it can take a step;  *)
(* nothing is assumed of the caller.                                       *)
SpecAbandon ==
    InitAbandon /\ [][NextAbandon]_vars /\ WF_vars(ProducerStep)

(* The caller has given up while the stream holds more occurrences than    *)
(* the results it took plus those the channel can hold.                    *)
AbandonedEarly ==
    /\ cpc = "abandoned"
    /\ FitsWindow
    /\ GoodReader
    /\ Cardinality(Occurrences(haystack, needle.bytes))
           > Len(received) + outChanSize

(***************************************************************************)
(* C12: when the caller of the streaming find-all stops receiving after k  *)
(* items and the stream holds more than k + outChanSize occurrences, the   *)
(* producer never closes the channel and never finishes; it comes to stand *)
(* at a send with the channel full, and from that state no step is taken   *)
(* any more: no read, no scan, no close.                                   *)
(***************************************************************************)
NoCancellation ==
    /\ [](AbandonedEarly => (~closed /\ pc \notin {"close", "done"}))
    /\ [][~(cpc = "abandoned" /\ BlockedOnFull)]_vars
    /\ [](AbandonedEarly => <>(BlockedOnFull \/ ~GoodReader))

(* The caller took one result and gave up; the producer stands at its send *)
(* with the channel full, bytes of the stream unread.                      *)
NoCancellationWitness ==
    /\ AbandonedEarly
    /\ BlockedOnFull
    /\ Len(received) = 1
    /\ rpos < Len(haystack)

(***************************************************************************)
(* The streaming searches for a needle of 1..buffSize bytes, with a        *)
(* scheduler that runs the goroutine whenever it can take a step and a     *)
(* caller that goes on receiving.                                          *)
(***************************************************************************)
InitStream ==
    /\ Init
    /\ api \in StreamAPIs
    /\ FitsWindow
    /\ Len(haystack) <= MaxStream

NextStream ==
    \/ HelpStart
    \/ HelpRead
    \/ HelpSendErr
    \/ HelpScan
    \/ HelpSendMatch
    \/ HelpClose
    \/ Range
    \/ ReturnOneFirst
    \/ ReturnOneSecond

SpecFair ==
    /\ InitStream
    /\ [][NextStream]_vars
    /\ WF_vars(ProducerStep)
    /\ WF_vars(ConsumerStep)

(***************************************************************************)
(* C13: for a needle of 1..buffSize bytes, a reader whose every Read ends  *)
(* (with bytes, with io.EOF or with an error) and a caller that goes on    *)
(* receiving, the goroutine reaches its end and the channel is closed;     *)
(* once a Read has returned io.EOF with no bytes there is no further Read, *)
(* and the scan pass that follows is the last: when it finds nothing more  *)
(* the goroutine goes to close the channel.                                *)
(***************************************************************************)
Termination ==
    /\ [](FitsWindow => <>(closed /\ pc = "done"))
    /\ [](FitsWindow => <>(cpc \in {"end", "returned"}))
    /\ []((FitsWindow /\ done) => pc \in {"scan", "send", "close", "done"})
    /\ [][(FitsWindow /\ done) => ~HelpRead]_vars
    /\ [][(FitsWindow /\ done /\ HelpScan /\ pc' # "send") =>
            pc' = "close"]_vars

(* A find-all over a stream longer than the window has ended after io.EOF, *)
(* with a carry-over behind it, and the caller has seen the channel close. *)
TerminationWitness ==
    /\ api = "IndexesWithinReaderNeedle"
    /\ FitsWindow
    /\ GoodReader
    /\ done
    /\ closed
    /\ pc = "done"
    /\ cpc = "end"
    /\ rpos > buffSize
    /\ Len(received) >= 1

(***************************************************************************)
(* C14: for a needle of more than buffSize bytes the streaming entry       *)
(* points report an error before any scan pass: no scan pass is begun      *)
(* unless a Result carrying an error has been put on the channel, and the  *)
(* channel is not closed with nothing on it.                               *)
(***************************************************************************)
LongNeedleRejected ==
    (api \in StreamAPIs /\ needle.length > buffSize) =>
        /\ pc \in {"scan", "send"} => ErrorResults(Sent) # {}
        /\ closed => Sent # <<>>

MatcherInit ==
    /\ api = "indexOfHelper"
    /\ \E nb \in BytesUpTo(MaxNeedle) :
          needle = [bytes       |-> nb,
                    length      |-> 0,
                    charTable   |-> [b \in 0 .. byteCount - 1 |-> 0],
                    offsetTable |-> <<>>]
    /\ haystack = <<>>
    /\ rpos = 0
    /\ rdFault = FALSE
    /\ rdZero = FALSE
    /\ buffer = [k \in 0 .. buffSize - 1 |-> 0]
    /\ used = 0
    /\ offset = 0
    /\ done = FALSE
    /\ haystackSkip = 0
    /\ haystackStartingIndex = 0
    /\ index = 0
    /\ ipos = 0
    /\ SwapNotRun
    /\ err = "nil"
    /\ out = <<>>
    /\ closed = FALSE
    /\ pc = "new"
    /\ cpc = "none"
    /\ received = <<>>
    /\ ret = [any |-> FALSE, firstOffset |-> 0, e |-> "nil"]

(* needle := NewNeedleBytes(bytes) *)
MatcherNewNeedle ==
    /\ pc = "new"
    /\ needle' = NewNeedleBytes(needle.bytes)
    /\ pc' = "built"
    /\ UNCHANGED <<swapVars, ipos, api, haystack, readerVars, windowVars,
                   haystackStartingIndex, index, out, closed, consumerVars>>

(* index := indexOfHelper(haystack, needle, haystackLen, haystackSkip) *)
MatcherCall ==
    /\ pc = "built"
    /\ \E B \in BytesUpTo(MaxHaystack) :
       \E n \in 0 .. Len(B) :
       \E s \in 0 .. Len(B) + 1 :
          /\ haystack' = B
          /\ used' = n
          /\ haystackSkip' = s
          /\ index' = indexOfHelper(B, needle, n, s)
    /\ pc' = "returned"
    /\ UNCHANGED <<swapVars, ipos, api, needle, readerVars, buffer, offset, done, err,
                   haystackStartingIndex, out, closed, consumerVars>>

MatcherNext ==
    \/ MatcherNewNeedle
    \/ MatcherCall

SpecMatcher == MatcherInit /\ [][MatcherNext]_vars

(* The positions p >= s where the needle lies within the first n bytes. *)
MatchesFrom(B, P, n, s) ==
    {p \in s .. n - Len(P) : \A k \in 1 .. Len(P) : B[p + k] = P[k]}

(***************************************************************************)
(* C16: for a non-empty needle P, a buffer B of valid length n and a skip  *)
(* s, indexOfHelper returns the smallest p >= s with p + len(P) <= n and   *)
(* B[p : p+len(P)] = P, and errorOffset exactly when there is no such p:   *)
(* no shift passes over an occurrence.                                     *)
(***************************************************************************)
MatcherFindsNext ==
    (pc = "returned" /\ needle.length >= 1) =>
        LET M == MatchesFrom(haystack, needle.bytes, used, haystackSkip)
        IN  /\ M # {} => index = Min(M)
            /\ M = {} => index = errorOffset

(* A call that had to shift past a first match lying before the skip and   *)
(* found a later one that overlaps it.                                     *)
MatcherFindsNextWitness ==
    /\ pc = "returned"
    /\ needle.length >= 2
    /\ haystackSkip >= 1
    /\ index # errorOffset
    /\ index > haystackSkip
    /\ MatchesFrom(haystack, needle.bytes, used, 0) # 
           MatchesFrom(haystack, needle.bytes, used, haystackSkip)
    /\ used < Len(haystack)

(* The indexes 0 .. L-2 at which byte b stands in the needle. *)
PlacesBeforeLast(P, b) == {r \in 0 .. Len(P) - 2 : At(P, r) = b}

Largest(S) == CHOOSE x \in S : \A y \in S : y <= x

(***************************************************************************)
(* C17: after NewNeedleBytes, for the needle's length L and every byte     *)
(* value b in 0 .. 255, charTable[b] = L-1-r for the largest r in 0 .. L-2 *)
(* with needle[r] = b, and charTable[b] = L when b stands nowhere in       *)
(* needle[0 .. L-2]; the byte at L-1 gives no entry.                       *)
(***************************************************************************)
CharTableRightmost ==
    pc = "built" =>
        \A b \in 0 .. byteCount - 1 :
            LET R == PlacesBeforeLast(needle.bytes, b)
            IN  needle.charTable[b] =
                    IF R = {} THEN needle.length
                              ELSE needle.length - 1 - Largest(R)

(* A needle built whose final byte stands nowhere else, so that its entry  *)
(* is L, and whose first byte stands twice before the end.                 *)
CharTableRightmostWitness ==
    /\ pc = "built"
    /\ needle.length >= 3
    /\ PlacesBeforeLast(needle.bytes, At(needle.bytes, needle.length - 1)) = {}
    /\ Cardinality(PlacesBeforeLast(needle.bytes, At(needle.bytes, 0))) >= 2
    /\ needle.charTable[At(needle.bytes, 0)] < needle.length - 1

(***************************************************************************)
(* C18: for a non-empty needle every entry of charTable and of offsetTable *)
(* is at least 1, and for every number m of bytes matched and every byte b *)
(* met at the mismatch the shift max(offsetTable[m], charTable[b]) is more *)
(* than m, so i ends to the right of where the attempt began; every call   *)
(* of indexOfHelper returns, with errorOffset or with the index of a match *)
(* that lies within the valid length.                                      *)
(***************************************************************************)
MatcherProgress ==
    needle.length >= 1 =>
        /\ pc = "built" =>
              /\ \A b \in 0 .. byteCount - 1 : needle.charTable[b] >= 1
              /\ \A m \in 0 .. needle.length - 1 :
                    /\ needle.offsetTable[m] >= 1
                    /\ \A b \in 0 .. byteCount - 1 :
                          maxUint32(needle.offsetTable[m],
                                    needle.charTable[b]) > m
        /\ pc = "returned" =>
              \/ index = errorOffset
              \/ index >= 0 /\ index + needle.length <= used

(* A call that ended with errorOffset on a buffer where the last two bytes *)
(* of the needle stand next to each other: an attempt matched bytes before *)
(* its mismatch.                                                           *)
MatcherProgressWitness ==
    /\ pc = "returned"
    /\ needle.length >= 3
    /\ haystackSkip = 0
    /\ used = Len(haystack)
    /\ index = errorOffset
    /\ \E p \in needle.length - 1 .. used - 1 :
          /\ haystack[p] = needle.bytes[needle.length - 1]
          /\ haystack[p + 1] = needle.bytes[needle.length]

(***************************************************************************)
(* C19: in a streaming search for a needle of 1..buffSize bytes over a     *)
(* reader that has not failed nor returned an empty read, whenever         *)
(* the goroutine is in a scan pass, offset is the place in the stream of   *)
(* the byte at buffer[0]: the number of bytes read so far less the used    *)
(* bytes of the window; offset + index is then the place of a match.       *)
(***************************************************************************)
BaseIsWindowStart ==
    (api \in StreamAPIs /\ FitsWindow /\ GoodReader
       /\ pc \in {"scan", "send"}) => offset = rpos - used

(***************************************************************************)
(* C20: in a streaming search for a needle of 1..buffSize bytes, a scan    *)
(* pass runs only with the window full (used = buffSize) or after the      *)
(* reader has returned io.EOF; and a Read that leaves the window partly    *)
(* filled, without io.EOF and without an error, is followed by another     *)
(* Read: the goroutine is at the Read again after it.                      *)
(***************************************************************************)
AccumulateFirst ==
    /\ []((api \in StreamAPIs /\ FitsWindow /\ pc \in {"scan", "send"}) =>
             (used = buffSize \/ done))
    /\ [][(FitsWindow /\ HelpRead /\ 0 < used' /\ used' < buffSize /\ ~done'
             /\ ~(pc' = "senderr" /\ err' # "nil")) => pc' = "read"]_vars

(***************************************************************************)
(* C21: in a streaming search for a needle of 1..buffSize bytes the        *)
(* channel is closed by the close at the end of the goroutine and by       *)
(* nothing else: once it is closed the goroutine has ended (no second      *)
(* close, hence no panic of one), and no step of it follows: no Read, no   *)
(* scan, no send, no close.  This holds on the paths through io.EOF,       *)
(* through a failed Read and through the first match of a find-first.      *)
(***************************************************************************)
ClosedIsTerminal ==
    /\ []((api \in StreamAPIs /\ FitsWindow /\ closed) => pc = "done")
    /\ []((api \in StreamAPIs /\ FitsWindow /\ pc = "done") => closed)
    /\ [][(api \in StreamAPIs /\ FitsWindow /\ closed) =>
            ~(HelpStart \/ HelpRead \/ HelpSendErr \/ HelpScan
              \/ HelpSendMatch \/ HelpClose)]_vars

(* A find-all has put matches and then the error of a failed Read on the   *)
(* channel and has closed it, the caller still receiving.                  *)
ClosedIsTerminalWitness ==
    /\ api = "IndexesWithinReaderNeedle"
    /\ FitsWindow
    /\ closed
    /\ pc = "done"
    /\ rdFault
    /\ Len(Sent) >= 2
    /\ ErrorResults(Sent) = {Len(Sent)}
    /\ cpc = "range"

(***************************************************************************)
(* C22: in a streaming search with a non-empty needle of any length, used  *)
(* never exceeds buffSize, every Read is issued with at least one free     *)
(* byte in the window (used < buffSize), the goroutine does not panic (the *)
(* slice of the carry-over lies within buffer[0:used]), and for a needle   *)
(* longer than the window and a reader that has not failed the search     *)
(* ends with the channel closed and nothing sent on it.                    *)
(***************************************************************************)
WindowBounds ==
    (api \in StreamAPIs /\ needle.length >= 1) =>
        /\ used <= buffSize
        /\ pc = "read" => used < buffSize
        /\ ~Panicked
        /\ (needle.length > buffSize /\ GoodReader /\ pc = "done") =>
              (closed /\ Sent = <<>>)

(***************************************************************************)
(* C23: in a streaming search for a needle of 1..buffSize bytes, a Read    *)
(* that returns no bytes and no error leads to no send and no close: the   *)
(* goroutine is never at the send of the error branch with a nil error,    *)
(* and, before any carry-over has moved offset, no Result with Offset      *)
(* errorOffset and a nil Error is on the channel or received.              *)
(***************************************************************************)
ZeroReadIgnored ==
    (api \in StreamAPIs /\ FitsWindow) =>
        /\ ~(pc = "senderr" /\ err = "nil")
        /\ offset = 0 =>
              \A k \in 1 .. Len(Sent) : Sent[k] # Result(errorOffset, "nil")

(* The length of the part of the stream that the completed scan passes     *)
(* have covered: none before the first pass, afterwards all bytes read     *)
(* less those added to the window since the last carry-over.               *)
ScannedLength ==
    IF rpos = used THEN 0 ELSE rpos - used + needle.length - 1

MatchResults(s) == {k \in 1 .. Len(s) : s[k].Error = "nil"}

(***************************************************************************)
(* C24: in a streaming find-all for a needle of 1..buffSize bytes, once a  *)
(* Read has failed no scan pass runs and no match is sent any more; and    *)
(* when the goroutine stands at the send of the error, the matches sent    *)
(* are as many as the occurrences that lie wholly in the part of the       *)
(* stream covered by the scan passes completed on a full window: the bytes *)
(* added to the window since then have not been scanned.                   *)
(***************************************************************************)
FailureStopsResults ==
    /\ [][(api = "IndexesWithinReaderNeedle" /\ FitsWindow /\ rdFault) =>
            ~(HelpScan \/ HelpSendMatch)]_vars
    /\ []((api = "IndexesWithinReaderNeedle" /\ FitsWindow /\ ~rdZero
           /\ pc = "senderr") =>
             Cardinality(MatchResults(Sent)) =
                Cardinality({i \in Occurrences(haystack, needle.bytes) :
                                i + needle.length <= ScannedLength}))

(***************************************************************************)
(* C25: for a non-empty needle, a buffer of valid length n and a skip s,   *)
(* no access of indexOfHelper is out of bounds: the call does not panic,   *)
(* and it returns the same on the first n bytes of the buffer alone, where *)
(* a read of haystack[i] with i >= n, or with i below 0 (which in uint32   *)
(* is a huge i), a read of needle.bytes[j] with j outside 0 .. length-1    *)
(* and a read of offsetTable outside 0 .. length-1 would each panic.       *)
(***************************************************************************)
MatcherInBounds ==
    (pc = "returned" /\ needle.length >= 1) =>
        /\ index # PanicIndex
        /\ indexOfHelper(SubSeq(haystack, 1, used), needle, used,
                         haystackSkip) = index

(* A call that matched down to the first byte of the buffer, with valid    *)
(* bytes ending before the buffer does.                                    *)
MatcherInBoundsWitness ==
    /\ pc = "returned"
    /\ needle.length >= 2
    /\ haystackSkip = 0
    /\ index = 0
    /\ used < Len(haystack)
    /\ used > needle.length

(***************************************************************************)
(* indexOfHelper stepped one alignment at a time, on haystacks whose       *)
(* length comes close to the largest uint32, called as IndexOf calls it:   *)
(* the whole slice is valid (haystackLen, kept in used) and nothing is     *)
(* skipped.  ipos is i at the head of the outer loop.                      *)
(***************************************************************************)
LongRun(n) == [k \in 1 .. n |-> 97]

LongHaystacks ==
    {LongRun(n - LongTail) \o t : n \in UintMod - 1 - LongSlack .. UintMod - 1,
                                  t \in [1 .. LongTail -> Alphabet]}

LongHaystackInit ==
    /\ api = "indexOfHelper"
    /\ \E nb \in BytesUpTo(MaxNeedle) :
          needle = [bytes       |-> nb,
                    length      |-> 0,
                    charTable   |-> [b \in 0 .. byteCount - 1 |-> 0],
                    offsetTable |-> <<>>]
    /\ haystack \in LongHaystacks
    /\ rpos = 0
    /\ rdFault = FALSE
    /\ rdZero = FALSE
    /\ buffer = [k \in 0 .. buffSize - 1 |-> 0]
    /\ used = U32(Len(haystack))
    /\ offset = 0
    /\ done = FALSE
    /\ haystackSkip = 0
    /\ haystackStartingIndex = 0
    /\ index = 0
    /\ ipos = 0
    /\ SwapNotRun
    /\ err = "nil"
    /\ out = <<>>
    /\ closed = FALSE
    /\ pc = "new"
    /\ cpc = "none"
    /\ received = <<>>
    /\ ret = [any |-> FALSE, firstOffset |-> 0, e |-> "nil"]

(* The inner loop of indexOfHelper from i and j: it returns at j = 0, or   *)
(* stops at a mismatch, where to is i + max(offsetTable[length-1-j],       *)
(* charTable[haystack[i]]) before the sum is cut to a uint32.              *)
RECURSIVE compareFrom(_, _, _, _)
compareFrom(hay, ndl, i, j) ==
    IF j >= Len(ndl.bytes) \/ i >= Len(hay) THEN [kind |-> "panic", to |-> 0]
    ELSE IF At(ndl.bytes, j) = At(hay, i)
         THEN IF j = 0 THEN [kind |-> "return", to |-> i]
              ELSE compareFrom(hay, ndl, U32(i - 1), U32(j - 1))
         ELSE IF ndl.length - 1 - j \notin DOMAIN ndl.offsetTable
              THEN [kind |-> "panic", to |-> 0]
              ELSE [kind |-> "shift",
                    to   |-> i + maxUint32(ndl.offsetTable[ndl.length - 1 - j],
                                           ndl.charTable[At(hay, i)])]

(* i := needle.length - 1 + haystackSkip *)
indexOfHelperEnter ==
    /\ pc = "built"
    /\ ipos' = U32(needle.length - 1 + haystackSkip)
    /\ pc' = "loop"
    /\ UNCHANGED <<swapVars, inputVars, readerVars, windowVars, haystackStartingIndex,
                   index, out, closed, consumerVars>>

(* One pass of the outer loop: i < haystackLen, the inner loop, i += ... *)
indexOfHelperAttempt ==
    /\ pc = "loop"
    /\ ipos < used
    /\ LET r == compareFrom(haystack, needle, ipos, U32(needle.length - 1))
       IN  CASE r.kind = "return" -> /\ index' = r.to
                                     /\ ipos' = r.to
                                     /\ pc' = "returned"
             [] r.kind = "shift"  -> /\ ipos' = U32(r.to)
                                     /\ pc' = "loop"
                                     /\ UNCHANGED index
             [] r.kind = "panic"  -> /\ pc' = "panic: index out of range"
                                     /\ UNCHANGED <<index, ipos>>
    /\ UNCHANGED <<swapVars, inputVars, readerVars, windowVars, haystackStartingIndex,
                   out, closed, consumerVars>>

(* The outer loop ends: return errorOffset *)
indexOfHelperExit ==
    /\ pc = "loop"
    /\ ~(ipos < used)
    /\ index' = errorOffset
    /\ pc' = "returned"
    /\ UNCHANGED <<swapVars, ipos, inputVars, readerVars, windowVars,
                   haystackStartingIndex, out, closed, consumerVars>>

LongHaystackNext ==
    \/ MatcherNewNeedle
    \/ indexOfHelperEnter
    \/ indexOfHelperAttempt
    \/ indexOfHelperExit

SpecLongHaystack == LongHaystackInit /\ [][LongHaystackNext]_vars

(***************************************************************************)
(* C26: for a non-empty needle and a haystack of at most 2^w - 1 bytes,    *)
(* i += shift never takes i past 2^w - 1: at every alignment that ends in  *)
(* a mismatch, i plus the shift is at most the largest value of the type.  *)
(***************************************************************************)
NoWrapAround ==
    (pc = "loop" /\ needle.length >= 1 /\ ipos < used) =>
        LET r == compareFrom(haystack, needle, ipos, U32(needle.length - 1))
        IN  r.kind = "shift" => r.to <= UintMod - 1

(***************************************************************************)
(* The swap tool (swap.go): main after its arguments are parsed.  The      *)
(* directory fs holds the input file, and whatever temporary and backup    *)
(* names other runs have left behind.                                      *)
(***************************************************************************)
status_fatal_error == 1

inFileName == <<"in", 0>>

NoName == <<"", 0>>

(* template + "." + suffix + strconv.Itoa(i) *)
TempName(suffix, i) == <<suffix, i>>

TempNames(suffix) == {TempName(suffix, i) : i \in 0 .. tempLast}

(* What another program left under a temporary or backup name. *)
Foreign == <<120>>

(* The sorted lists of up to MaxPositions offsets. *)
PositionLists ==
    {p \in UNION {[1 .. k -> 0 .. MaxFile] : k \in 0 .. MaxPositions} :
        \A k \in 1 .. Len(p) - 1 : p[k] <= p[k + 1]}

(* The replacements tried: runs of a byte the files do not hold, so that   *)
(* every write shows.                                                      *)
PatchBytes == {[i \in 1 .. k |-> 99] : k \in 1 .. MaxPatch}

Directories ==
    {ins @@ tmp @@ bak :
        ins \in {<<>>} \cup {inFileName :> c : c \in BytesUpTo(MaxFile)},
        tmp \in {[n \in T |-> Foreign] : T \in SUBSET TempNames("tmp")},
        bak \in {[n \in B |-> Foreign] : B \in {{}, TempNames("backup")}}}

SwapInit ==
    /\ api = "swap"
    /\ needle = [bytes       |-> <<>>,
                 length      |-> 0,
                 charTable   |-> [b \in 0 .. byteCount - 1 |-> 0],
                 offsetTable |-> <<>>]
    /\ haystack = <<>>
    /\ rpos = 0
    /\ rdFault = FALSE
    /\ rdZero = FALSE
    /\ buffer = [k \in 0 .. buffSize - 1 |-> 0]
    /\ used = 0
    /\ offset = 0
    /\ done = FALSE
    /\ haystackSkip = 0
    /\ haystackStartingIndex = 0
    /\ index = 0
    /\ ipos = 0
    /\ err = "nil"
    /\ out = <<>>
    /\ closed = FALSE
    /\ pc = "none"
    /\ cpc = "none"
    /\ received = <<>>
    /\ ret = [any |-> FALSE, firstOffset |-> 0, e |-> "nil"]
    /\ spc = "open"
    /\ fs \in Directories
    /\ fs0 = fs
    /\ toBytes \in PatchBytes
    /\ fromBytes \in {<<>>} \cup [1 .. Len(toBytes) -> Alphabet]
    /\ positions \in PositionLists
    /\ posIdx = 0
    /\ inFile = FALSE
    /\ outFile = FALSE
    /\ outFileName = NoName
    /\ complete = FALSE
    /\ exitCode = 0
    /\ panicking = FALSE
    /\ created = {}
    /\ removed = {}

searchVars == <<api, needle, haystack, rpos, rdFault, rdZero, buffer, used,
                offset, done, haystackSkip, haystackStartingIndex, index, ipos,
                err, out, closed, pc, cpc, received, ret>>

(* makeTempFile: the first of the names 0 .. tempLast that can be created  *)
(* (O_CREATE|O_EXCL); when none can, the last name tried and an error.     *)
makeTempFile(dir, suffix) ==
    LET free == {i \in 0 .. tempLast : TempName(suffix, i) \notin DOMAIN dir}
    IN  IF free = {}
        THEN [fname |-> TempName(suffix, tempLast), ok |-> FALSE]
        ELSE [fname |-> TempName(suffix,
                                 CHOOSE i \in free : \A k \in free : i <= k),
              ok    |-> TRUE]

(* The same length and the same bytes, whatever the bytes are. *)
sameBytesLengthOnly(a, b) == Len(a) = Len(b)

sameBytes(a, b) ==
    /\ Len(a) = Len(b)
    /\ \A i \in 1 .. Len(a) : a[i] = b[i]

(* file.ReadAt(buffer, off) with len(buffer) = n: an error (io.EOF) when   *)
(* the file ends before off + n.                                           *)
ReadAt(content, n, off) ==
    IF off + n <= Len(content)
    THEN [buffer |-> SubSeq(content, off + 1, off + n), err |-> "nil"]
    ELSE [buffer |-> SubSeq(content, off + 1, Len(content)), err |-> EOF]

(* file.WriteAt(bytes, off): past the end the file grows, a gap reads 0. *)
WriteAt(content, bytes, off) ==
    LET n == IF off + Len(bytes) > Len(content) THEN off + Len(bytes)
             ELSE Len(content)
    IN  [k \in 1 .. n |->
            IF k > off /\ k <= off + Len(bytes) THEN bytes[k - off]
            ELSE IF k <= Len(content) THEN content[k]
            ELSE 0]

Remove(dir, name) == [n \in DOMAIN dir \ {name} |-> dir[n]]

(* os.Rename(old, new): new is replaced. *)
Rename(dir, old, new) ==
    [n \in (DOMAIN dir \ {old}) \cup {new} |->
        IF n = new THEN dir[old] ELSE dir[n]]

(* inFile, oe := os.Open(inFileName); on an error MyFatal sets the exit   *)
(* code and prints, and main goes on.                                      *)
SwapOpen ==
    /\ spc = "open"
    /\ inFile' = (inFileName \in DOMAIN fs)
    /\ exitCode' = IF inFileName \in DOMAIN fs THEN exitCode
                   ELSE status_fatal_error
    /\ spc' = "temp"
    /\ UNCHANGED <<searchVars, fs, fs0, fromBytes, toBytes, positions, posIdx,
                   outFile, outFileName, complete, panicking, created,
                   removed>>

(* outFileName, outFile, oe2 := makeTempFile(inFileName, "tmp"); on an     *)
(* error MyFatal, and main goes on; complete := false.                     *)
SwapMakeTemp ==
    /\ spc = "temp"
    /\ LET t == makeTempFile(fs, "tmp")
       IN  /\ outFileName' = t.fname
           /\ outFile' = t.ok
           /\ fs' = IF t.ok THEN fs @@ (t.fname :> <<>>) ELSE fs
           /\ created' = IF t.ok THEN created \cup {t.fname} ELSE created
           /\ exitCode' = IF t.ok THEN exitCode ELSE status_fatal_error
    /\ complete' = FALSE
    /\ spc' = "copy"
    /\ UNCHANGED <<searchVars, fs0, fromBytes, toBytes, positions, posIdx,
                   inFile, panicking, removed>>

(* io.Copy(outFile, inFile): with a nil file on either side it fails; it   *)
(* may also fail after any part of the input is written.  On an error      *)
(* MyFatal and return.                                                     *)
SwapCopy ==
    /\ spc = "copy"
    /\ IF inFile /\ outFile
       THEN \/ /\ fs' = [fs EXCEPT ![outFileName] = fs[inFileName]]
               /\ spc' = "loop"
               /\ UNCHANGED exitCode
            \/ /\ \E n \in 0 .. Len(fs[inFileName]) :
                     fs' = [fs EXCEPT ![outFileName] =
                                          SubSeq(fs[inFileName], 1, n)]
               /\ exitCode' = status_fatal_error
               /\ spc' = "deferred"
       ELSE /\ exitCode' = status_fatal_error
            /\ spc' = "deferred"
            /\ UNCHANGED fs
    /\ UNCHANGED <<searchVars, fs0, fromBytes, toBytes, positions, posIdx,
                   inFile, outFile, outFileName, complete, panicking, created,
                   removed>>

(* The offset the range loop takes next, and what ReadAt finds there. *)
NextOffset == positions[posIdx + 1]

FoundThere == ReadAt(fs[outFileName], Len(fromBytes), NextOffset)

(* One pass of "for _, offset := range positions": ReadAt and sameBytes    *)
(* when from-bytes are given, then WriteAt unless skipped.  MyPanic of an  *)
(* error unwinds main.                                                     *)
SwapRange ==
    /\ spc = "loop"
    /\ posIdx < Len(positions)
    /\ IF fromBytes # <<>> /\ FoundThere.err # "nil"
       THEN /\ panicking' = TRUE
            /\ spc' = "deferred"
            /\ UNCHANGED <<fs, posIdx>>
       ELSE IF fromBytes # <<>> /\ ~sameBytes(fromBytes, FoundThere.buffer)
       THEN /\ posIdx' = posIdx + 1
            /\ UNCHANGED <<fs, spc, panicking>>
       ELSE \/ /\ fs' = [fs EXCEPT ![outFileName] =
                             WriteAt(fs[outFileName], toBytes, NextOffset)]
               /\ posIdx' = posIdx + 1
               /\ UNCHANGED <<spc, panicking>>
            \/ /\ panicking' = TRUE
               /\ spc' = "deferred"
               /\ UNCHANGED <<fs, posIdx>>
    /\ UNCHANGED <<searchVars, fs0, fromBytes, toBytes, positions, inFile,
                   outFile, outFileName, complete, exitCode, created, removed>>

(* The loop is over: complete = true, and main returns. *)
SwapComplete ==
    /\ spc = "loop"
    /\ posIdx = Len(positions)
    /\ complete' = TRUE
    /\ spc' = "deferred"
    /\ UNCHANGED <<searchVars, fs, fs0, fromBytes, toBytes, positions, posIdx,
                   inFile, outFile, outFileName, exitCode, panicking, created,
                   removed>>

(* The deferred function of main: outFile.Close(); when complete, a backup *)
(* name is made, the input is renamed to it and the copy to the input's    *)
(* name; otherwise os.Remove(outFileName).                                 *)
SwapDeferred ==
    /\ spc = "deferred"
    /\ IF complete
       THEN LET b == makeTempFile(fs, "backup")
            IN  IF b.ok
                THEN /\ fs' = Rename(Rename(fs @@ (b.fname :> <<>>),
                                            inFileName, b.fname),
                                     outFileName, inFileName)
                     /\ created' = created \cup {b.fname}
                     /\ UNCHANGED <<panicking, removed>>
                ELSE /\ panicking' = TRUE
                     /\ UNCHANGED <<fs, created, removed>>
       ELSE IF outFileName \in DOMAIN fs
            THEN /\ fs' = Remove(fs, outFileName)
                 /\ removed' = removed \cup {outFileName}
                 /\ UNCHANGED <<panicking, created>>
            ELSE UNCHANGED <<fs, panicking, created, removed>>
    /\ spc' = "exit"
    /\ UNCHANGED <<searchVars, fs0, fromBytes, toBytes, positions, posIdx,
                   inFile, outFile, outFileName, complete, exitCode>>

(* inFile.Close() and MyDefer: a panic is printed, os.Exit(exitCode). *)
SwapExit ==
    /\ spc = "exit"
    /\ spc' = "exited"
    /\ UNCHANGED <<searchVars, fs, fs0, fromBytes, toBytes, positions, posIdx,
                   inFile, outFile, outFileName, complete, exitCode,
                   panicking, created, removed>>

SwapNext ==
    \/ SwapOpen
    \/ SwapMakeTemp
    \/ SwapCopy
    \/ SwapRange
    \/ SwapComplete
    \/ SwapDeferred
    \/ SwapExit

SpecSwap == SwapInit /\ [][SwapNext]_vars

(* The input file is as the run found it. *)
InputUntouched ==
    /\ (inFileName \in DOMAIN fs) = (inFileName \in DOMAIN fs0)
    /\ inFileName \in DOMAIN fs => fs[inFileName] = fs0[inFileName]

(* What the claimed rule makes of content, from the k-th offset on. *)
RECURSIVE Patched(_, _)
Patched(content, k) ==
    IF k > Len(positions) THEN content
    ELSE LET o == positions[k]
         IN  IF \/ fromBytes = <<>>
                \/ /\ o + Len(fromBytes) <= Len(content)
                   /\ SubSeq(content, o + 1, o + Len(fromBytes)) = fromBytes
             THEN Patched(WriteAt(content, toBytes, o), k + 1)
             ELSE Patched(content, k + 1)

FileSafety ==
    (spc # "none") =>
        /\ ~InputUntouched => (complete /\ posIdx = Len(positions))
        /\ (spc = "exited" /\ (~complete \/ panicking)) => InputUntouched
        /\ removed \subseteq created

====
